---- MODULE Spec2Model ----
(***************************************************************************)
(* Real-time audio pipeline of the Huddle01 conferencing example:          *)
(*   - AudioProcessor (transcribe.py): regroups byte payloads into         *)
(*     fixed-size chunks;                                                   *)
(*   - BotAudioTrack (custom/bot_audio_track.py): a FIFO of decoded        *)
(*     samples and the paced recv() that drains it;                        *)
(*   - Transcribe (transcribe.py): the submission of chunks to a worker    *)
(*     pool and the events of each streaming call;                         *)
(*   - OpenBot (open_ai.py): the inbound read loop and its handler table,  *)
(*     connect(), send_audio_chunks() and close().                         *)
(* Each component has its own specification over the shared variables;     *)
(* the variables a specification does not use stay at their initial value. *)
(***************************************************************************)
EXTENDS Integers, Sequences, FiniteSets, TLC

VARIABLES
    \* AudioProcessor
    buffer,        \* self.buffer
    emitted,       \* history: every chunk returned so far, in return order
    allInput,      \* history: every byte passed to add_audio, in call order
    lastChunks,    \* history: the list returned by the latest add_audio call
    \* BotAudioTrack
    readyState,    \* MediaStreamTrack.readyState
    start,         \* self._start
    timestamp,     \* self._timestamp
    audio_fifo,    \* self.audio_fifo: [samples, read]
    nwrites,       \* history: number of frames written to a FIFO so far
    now,           \* the event loop's clock, in sample periods
    recvPc,        \* where the recv coroutine is: "idle" or "sleeping"
    recvCall,      \* the suspended recv call: [begin, deadline, slept]
    last,          \* history: outcome of the latest finished recv call
    log,           \* history: [pts, kind] of every frame recv returned
    nfaults,       \* history: recv calls whose try block raised
    \* OpenBot read loop
    inbox,         \* envelopes received on the websocket, not yet handled
    nReceived,     \* history: number of envelopes received
    nHandled,      \* history: number of envelopes handled
    prevHandled,   \* history: the envelope handled before the latest one
    lastHandled,   \* history: the envelope handled latest
    afterHandle,   \* history: FIFO samples when the latest handler returned
    logged,        \* history: what the latest _handle_message logged
    listening,     \* the task running _listen has not ended
    \* threads around fifo_lock
    fifo_lock,     \* owner of self.fifo_lock, or NoThread
    pc,            \* per thread: its position
    wframe,        \* writer: samples of the frame still to copy in
    rframe,        \* reader: samples copied out so far
    rwant,         \* reader: samples still to copy out
    rdone,         \* history: the latest frame a read returned
    flushedUpTo,   \* history: highest write number begun before the last flush
    rFlushed,      \* history: flushedUpTo when the latest read took the lock
    \* OpenBot connection and outbound path
    ws,            \* self.__ws: None, or the number of a connection
    conns,         \* every connection opened: [open, wire, acked, listen,
                   \*   droppedAt]
    connectPc,     \* where connect() is: "idle", "connecting", "initial"
    nconnect,      \* history: number of connect() calls
    chunk_number,  \* self.__chunk_number
    sending,       \* send_audio_chunks calls suspended in ws.send
    ncalls,        \* history: number of send_audio_chunks calls
    failedCalls,   \* history: the calls whose send raised
    afterClose,    \* history: what happened after close(): "sent",
                   \*   "dispatched"
    refused,       \* history: the calls made while self.__ws was None
    raisedCalls,   \* history: the calls that raised to their caller
    \* Transcribe: the worker pool
    queue,         \* the executor's work queue: submissions not yet started
    subs,          \* every submission: [request, state, results]
    events,        \* history: every "transcription" event, in emit order
    threads,       \* number of worker threads of the executor
    spawned,       \* history: number of worker threads ever started
    lastSubmit,    \* history: what the latest send_audio_byte submitted
    \* AudioProcessor at full size
    callSizes      \* history: the payload sizes of the add_audio calls

chunkerVars == <<buffer, emitted, allInput, lastChunks>>
trackVars   == <<readyState, start, timestamp, audio_fifo, nwrites>>
pacerVars   == <<now, recvPc, recvCall, last, log, nfaults>>
botVars     == <<inbox, nReceived, nHandled, prevHandled, lastHandled,
                 afterHandle, logged, listening>>
raceVars    == <<fifo_lock, pc, wframe, rframe, rwant, rdone, flushedUpTo,
                 rFlushed>>
clientVars  == <<ws, conns, connectPc, nconnect, chunk_number, sending,
                 ncalls, failedCalls, afterClose, refused, raisedCalls>>
poolVars    == <<queue, subs, events, threads, spawned, lastSubmit>>
feedVars    == <<chunkerVars, poolVars, callSizes>>
vars == <<chunkerVars, trackVars, pacerVars, botVars, raceVars, clientVars,
          poolVars, callSizes>>

\* Python's None and a value that is present: an optional value is a
\* sequence of at most one element.
None == <<>>
Some(x) == <<x>>
The(o) == o[1]

(***************************************************************************)
(* Bounds of the model.                                                    *)
(***************************************************************************)
\* Number of distinct byte values (the code's bytes range over 0..255).
ByteValues == 2
\* Total number of bytes fed to one AudioProcessor.
MaxTotal == 6
\* AudioProcessor.PREFERRED_CHUNK_SIZE, scaled down from 24576.
PREFERRED_CHUNK_SIZE == 2

Byte == 0 .. (ByteValues - 1)

BytesUpTo(n) == UNION {[1 .. k -> Byte] : k \in 0 .. n}

(***************************************************************************)
(* AudioProcessor                                                          *)
(***************************************************************************)
RECURSIVE SliceLoopOf(_, _, _)
\* while len(buffer) >= P: chunks.append(buffer[:P]); buffer = buffer[P:]
\* for a chunk size P.
SliceLoopOf(size, buf, chunks) ==
    IF Len(buf) >= size
    THEN SliceLoopOf(size, SubSeq(buf, size + 1, Len(buf)),
                     Append(chunks, SubSeq(buf, 1, size)))
    ELSE [buffer |-> buf, chunks |-> chunks]

\* The loop of add_audio with PREFERRED_CHUNK_SIZE as scaled in this model.
SliceLoop(buf, chunks) == SliceLoopOf(PREFERRED_CHUNK_SIZE, buf, chunks)

\* Mutant: `if` in place of `while` (at most one chunk per call).
add_audio_if(buf, audio_data) ==
    LET b == buf \o audio_data IN
    IF Len(b) >= PREFERRED_CHUNK_SIZE
    THEN [buffer |-> SubSeq(b, PREFERRED_CHUNK_SIZE + 1, Len(b)),
          chunks |-> <<SubSeq(b, 1, PREFERRED_CHUNK_SIZE)>>]
    ELSE [buffer |-> b, chunks |-> <<>>]

RECURSIVE SliceLoopDrop(_, _)
SliceLoopDrop(buf, chunks) ==
    IF Len(buf) >= PREFERRED_CHUNK_SIZE
    THEN SliceLoopDrop(SubSeq(buf, PREFERRED_CHUNK_SIZE + 2, Len(buf)),
                       Append(chunks, SubSeq(buf, 1, PREFERRED_CHUNK_SIZE)))
    ELSE [buffer |-> buf, chunks |-> chunks]

\* Mutant: the slice that keeps the remainder starts one byte late.
add_audio_drop(buf, audio_data) == SliceLoopDrop(buf \o audio_data, <<>>)

RECURSIVE SliceLoopGt(_, _)
SliceLoopGt(buf, chunks) ==
    IF Len(buf) > PREFERRED_CHUNK_SIZE
    THEN SliceLoopGt(SubSeq(buf, PREFERRED_CHUNK_SIZE + 1, Len(buf)),
                     Append(chunks, SubSeq(buf, 1, PREFERRED_CHUNK_SIZE)))
    ELSE [buffer |-> buf, chunks |-> chunks]

\* Mutant: the loop runs only while the buffer exceeds the chunk size.
add_audio_gt(buf, audio_data) == SliceLoopGt(buf \o audio_data, <<>>)

\* AudioProcessor.add_audio: the new buffer and the returned list of chunks.
add_audio(buf, audio_data) == SliceLoop(buf \o audio_data, <<>>)

\* AudioProcessor.get_remaining
get_remaining(buf) == IF buf # <<>> THEN Some(buf) ELSE None

RECURSIVE Concat(_)
Concat(chunks) ==
    IF chunks = <<>> THEN <<>> ELSE Head(chunks) \o Concat(Tail(chunks))

ChunkerInit ==
    /\ buffer = <<>>
    /\ emitted = <<>>
    /\ allInput = <<>>
    /\ lastChunks = <<>>

AddAudio(audio_data) ==
    /\ Len(allInput) + Len(audio_data) <= MaxTotal
    /\ LET r == add_audio(buffer, audio_data) IN
         /\ buffer' = r.buffer
         /\ lastChunks' = r.chunks
         /\ emitted' = emitted \o r.chunks
    /\ allInput' = allInput \o audio_data

\* AudioProcessor.PREFERRED_CHUNK_SIZE as the source has it.
FULL_PREFERRED_CHUNK_SIZE == 24576
\* Number of add_audio calls made with payloads of full size.
MaxFullCalls == 3

\* The sizes of those payloads.
FullSizes == {1424, 6000, 10000, 24576, 30000}

\* A payload of n bytes that continues the input so far.
FullPayload(n) == [i \in 1 .. n |-> (Len(allInput) + i) % 256]

\* Mutant: add_audio keeps no remainder.
add_audio_full_drop(buf, audio_data) ==
    [buffer |-> <<>>,
     chunks |-> SliceLoopOf(FULL_PREFERRED_CHUNK_SIZE, buf \o audio_data,
                            <<>>).chunks]

\* AudioProcessor.add_audio with the source's chunk size.
add_audio_full(buf, audio_data) ==
    SliceLoopOf(FULL_PREFERRED_CHUNK_SIZE, buf \o audio_data, <<>>)

\* An add_audio call with a payload of n bytes.
AddAudioFull(n) ==
    /\ Len(callSizes) < MaxFullCalls
    /\ callSizes' = Append(callSizes, n)
    /\ LET r == add_audio_full(buffer, FullPayload(n)) IN
         /\ buffer' = r.buffer
         /\ lastChunks' = r.chunks
         /\ emitted' = emitted \o r.chunks
    /\ allInput' = allInput \o FullPayload(n)

(***************************************************************************)
(* BotAudioTrack: the FIFO                                                 *)
(***************************************************************************)
\* self.frame_samples, scaled down from int(0.020 * 24000).
FrameSamples == 2
\* Number of frames written to the FIFO.
MaxWrites == 3
\* Largest decoded length, in bytes, of an audio delta.
MaxDeltaBytes == 4
\* self.sample_width: bytes per int16 sample.
sample_width == 2

\* A base64 string is modelled by whether b64decode accepts it and by the
\* number of bytes it decodes to.
B64(n) == [valid |-> TRUE, bytes |-> n]
Bad64 == [valid |-> FALSE, bytes |-> 0]
Base64Strings == {B64(n) : n \in 0 .. MaxDeltaBytes} \cup {Bad64}

\* base64.b64decode, np.frombuffer(dtype=int16), reshape(channels, -1):
\* the number of samples, or None when one of them raises.
DecodeAudio(base64_audio) ==
    IF ~base64_audio.valid THEN None
    ELSE IF base64_audio.bytes % sample_width # 0 THEN None
    ELSE Some(base64_audio.bytes \div sample_width)

\* AudioFrame.from_ndarray: sample i of n of the w-th frame written.
NewFrame(w, n) == [i \in 1 .. n |-> [w |-> w, i |-> i, n |-> n]]

\* AudioFifo(): no samples, samples_read = 0.
EmptyFifo == [samples |-> <<>>, read |-> 0]

\* Mutant: a read returns whatever is buffered, up to `samples`.
FifoReadPartial(f, samples) ==
    IF Len(f.samples) = 0
    THEN [frame |-> None, fifo |-> f]
    ELSE IF Len(f.samples) < samples
    THEN [frame |-> Some([samples |-> f.samples, pts |-> f.read]),
          fifo |-> [samples |-> <<>>, read |-> f.read + Len(f.samples)]]
    ELSE [frame |-> Some([samples |-> SubSeq(f.samples, 1, samples),
                          pts |-> f.read]),
          fifo |-> [samples |-> SubSeq(f.samples, samples + 1,
                                       Len(f.samples)),
                    read |-> f.read + samples]]

\* AudioFifo.write
FifoWrite(f, frame) == [f EXCEPT !.samples = @ \o frame]

\* AudioFifo.read(samples): None unless that many samples are buffered; the
\* frame read carries the FIFO's own pts (its samples_read counter).
FifoRead(f, samples) ==
    IF Len(f.samples) < samples
    THEN [frame |-> None, fifo |-> f]
    ELSE [frame |-> Some([samples |-> SubSeq(f.samples, 1, samples),
                          pts |-> f.read]),
          fifo |-> [samples |-> SubSeq(f.samples, samples + 1,
                                       Len(f.samples)),
                    read |-> f.read + samples]]

\* BotAudioTrack.enqueue_audio: the FIFO afterwards and whether it wrote.
enqueue_audio(rs, f, w, base64_audio) ==
    IF rs # "live" THEN [fifo |-> f, wrote |-> FALSE, failed |-> FALSE]
    ELSE LET n == DecodeAudio(base64_audio) IN
         IF n = None THEN [fifo |-> f, wrote |-> FALSE, failed |-> TRUE]
         ELSE [fifo |-> FifoWrite(f, NewFrame(w + 1, The(n))),
               wrote |-> TRUE, failed |-> FALSE]

\* Mutant: flush_audio leaves the FIFO as it is.
flush_audio_keep(f) == f

\* BotAudioTrack.flush_audio: self.audio_fifo = AudioFifo()
flush_audio(f) == EmptyFifo

TrackInit ==
    /\ readyState = "live"
    /\ start = None
    /\ timestamp = 0
    /\ audio_fifo = EmptyFifo
    /\ nwrites = 0

\* A handler on the event loop calls enqueue_audio; the only caller passes
\* a non-empty string.
EnqueueAudio(base64_audio) ==
    /\ nwrites < MaxWrites
    /\ base64_audio # B64(0)
    /\ LET r == enqueue_audio(readyState, audio_fifo, nwrites, base64_audio) IN
         /\ audio_fifo' = r.fifo
         /\ nwrites' = IF r.wrote THEN nwrites + 1 ELSE nwrites
    /\ UNCHANGED <<readyState, start, timestamp>>

\* A handler on the event loop calls flush_audio.
FlushAudio ==
    /\ audio_fifo' = flush_audio(audio_fifo)
    /\ UNCHANGED <<readyState, start, timestamp, nwrites>>

\* BotAudioTrack.stop
Stop ==
    /\ readyState = "live"
    /\ readyState' = "ended"
    /\ UNCHANGED <<start, timestamp, audio_fifo, nwrites>>

(***************************************************************************)
(* BotAudioTrack.recv                                                      *)
(* Time is counted in sample periods, so that _timestamp / sample_rate is  *)
(* the timestamp itself.                                                   *)
(***************************************************************************)
\* Number of recv calls that return a frame.
MaxRecv == 4
\* Last instant of the clock.
MaxTime == 8

\* np.zeros(samples, dtype=np.int16): a zero sample belongs to no write.
Silence(samples) == [i \in 1 .. samples |-> [w |-> 0, i |-> 0, n |-> 0]]

\* Mutant: the silence frame is one sample short.
SilenceFrameShort(samples) == Silence(samples - 1)

\* The frame built when the FIFO returns None.
SilenceFrame(samples) == Silence(samples)

\* Mutant: a frame read from the FIFO keeps the pts it came with.
FramePtsKeep(frame, ts) == IF frame = None THEN ts ELSE The(frame).pts

\* frame.pts = self._timestamp
FramePts(frame, ts) == ts

NoCall == [begin |-> 0, deadline |-> 0, slept |-> 0]

NoResult ==
    [result |-> "none", kind |-> "none", samples |-> <<>>, pts |-> 0,
     inPts |-> None, buffered |-> 0, begin |-> 0, deadline |-> 0,
     slept |-> 0, live |-> TRUE, cause |-> "none", logged |-> "nothing",
     had |-> <<>>, left |-> <<>>]

PacerInit ==
    /\ now = 0
    /\ recvPc = "idle"
    /\ recvCall = NoCall
    /\ last = NoResult
    /\ log = <<>>
    /\ nfaults = 0

\* self._start after the `if self._start is None` block
StartAfter == IF start = None THEN now ELSE The(start)

\* self._timestamp after `self._timestamp += samples`
TimestampAfter == (IF start = None THEN 0 ELSE timestamp) + FrameSamples

\* target_time = self._start + (self._timestamp / self.sample_rate)
TargetTime == StartAfter + TimestampAfter

\* The try block of recv: read, build the frame, stamp it, return it.
RecvReturn(call, ts) ==
    LET r == FifoRead(audio_fifo, FrameSamples)
        kind == IF r.frame = None THEN "silence" ELSE "audio"
        samples == IF r.frame = None THEN SilenceFrame(FrameSamples)
                   ELSE The(r.frame).samples
        pts == FramePts(r.frame, ts)
    IN  /\ audio_fifo' = r.fifo
        /\ last' = [result |-> "frame", kind |-> kind, samples |-> samples,
                    pts |-> pts,
                    inPts |-> IF r.frame = None THEN None
                              ELSE Some(The(r.frame).pts),
                    buffered |-> Len(audio_fifo.samples),
                    begin |-> call.begin, deadline |-> call.deadline,
                    slept |-> call.slept, live |-> readyState = "live",
                    cause |-> "none", logged |-> "nothing",
                    had |-> audio_fifo.samples, left |-> r.fifo.samples]
        /\ log' = Append(log, [pts |-> pts, kind |-> kind])
        /\ recvPc' = "idle"
        /\ recvCall' = NoCall
        /\ nfaults' = nfaults

\* recv on a track that is not live raises MediaStreamError.
RecvClosed ==
    /\ recvPc = "idle"
    /\ readyState # "live"
    /\ last' = [NoResult EXCEPT !.result = "MediaStreamError",
                                !.live = FALSE, !.cause = "closed"]
    /\ UNCHANGED <<trackVars, now, recvPc, recvCall, log, nfaults>>

\* recv with wait > 0: the coroutine suspends in asyncio.sleep(wait).
RecvSleep ==
    /\ recvPc = "idle"
    /\ readyState = "live"
    /\ Len(log) < MaxRecv
    /\ TargetTime - now > 0
    /\ start' = Some(StartAfter)
    /\ timestamp' = TimestampAfter
    /\ recvPc' = "sleeping"
    /\ recvCall' = [begin |-> now, deadline |-> TargetTime,
                    slept |-> TargetTime - now]
    /\ UNCHANGED <<readyState, audio_fifo, nwrites, now, last, log, nfaults>>

\* recv with wait <= 0: no sleep, the frame is read at once.
RecvLate ==
    /\ recvPc = "idle"
    /\ readyState = "live"
    /\ Len(log) < MaxRecv
    /\ TargetTime - now <= 0
    /\ start' = Some(StartAfter)
    /\ timestamp' = TimestampAfter
    /\ RecvReturn([begin |-> now, deadline |-> TargetTime, slept |-> 0],
                  TimestampAfter)
    /\ UNCHANGED <<readyState, nwrites, now>>

\* asyncio.sleep returns, at the requested instant or later.
RecvWake ==
    /\ recvPc = "sleeping"
    /\ now >= recvCall.begin + recvCall.slept
    /\ RecvReturn(recvCall, timestamp)
    /\ UNCHANGED <<readyState, start, timestamp, nwrites, now>>

\* The clock advances.
Tick ==
    /\ now < MaxTime
    /\ now' = now + 1
    /\ UNCHANGED <<trackVars, recvPc, recvCall, last, log, nfaults>>

\* Number of recv calls whose try block raises.
MaxFaults == 1

\* Where in the try block of recv the exception is raised: in
\* audio_fifo.read, or after it while the frame is built and stamped.
FaultPoints == {"read", "build"}

\* The except clause of recv: log the error, raise MediaStreamError.
RecvRaise(call, at) ==
    /\ nfaults < MaxFaults
    /\ nfaults' = nfaults + 1
    /\ audio_fifo' = IF at = "read" THEN audio_fifo
                     ELSE FifoRead(audio_fifo, FrameSamples).fifo
    /\ last' = [NoResult EXCEPT !.result = "MediaStreamError",
                                !.buffered = Len(audio_fifo.samples),
                                !.begin = call.begin,
                                !.deadline = call.deadline,
                                !.slept = call.slept,
                                !.live = readyState = "live",
                                !.cause = "error",
                                !.logged = "error: Error in recv"]
    /\ recvPc' = "idle"
    /\ recvCall' = NoCall
    /\ log' = log

\* recv with wait <= 0 whose try block raises.
RecvLateFault(at) ==
    /\ recvPc = "idle"
    /\ readyState = "live"
    /\ Len(log) < MaxRecv
    /\ TargetTime - now <= 0
    /\ start' = Some(StartAfter)
    /\ timestamp' = TimestampAfter
    /\ RecvRaise([begin |-> now, deadline |-> TargetTime, slept |-> 0], at)
    /\ UNCHANGED <<readyState, nwrites, now>>

\* asyncio.sleep returns and the try block raises.
RecvWakeFault(at) ==
    /\ recvPc = "sleeping"
    /\ now >= recvCall.begin + recvCall.slept
    /\ RecvRaise(recvCall, at)
    /\ UNCHANGED <<readyState, start, timestamp, nwrites, now>>

(***************************************************************************)
(* OpenBot: the read loop and the handler table                            *)
(***************************************************************************)
\* Number of envelopes received on one connection.
MaxEnvelopes == 2

\* ResponseMessageTypes
MessageTypes ==
    {"session.created", "session.updated", "response.created",
     "response.done", "response.audio.done", "response.audio.delta",
     "response.audio_transcript.delta", "rate_limit.updated",
     "input_audio_buffer.speech_started",
     "input_audio_buffer.speech_stopped", "error"}

\* The discriminators the remote side sends in this model: one lifecycle
\* acknowledgement, the audio and voice-activity events, error, and one the
\* table does not know.
InboundTypes ==
    {"session.created", "response.audio.delta",
     "input_audio_buffer.speech_started",
     "input_audio_buffer.speech_stopped", "error", "conversation.created"}

\* The "delta" values they carry: none, an empty string, a string that is
\* not base64, and strings that decode to 1 .. sample_width bytes.
InboundDeltas ==
    {None, Some(Bad64)} \cup {Some(B64(n)) : n \in 0 .. sample_width}

\* A message off the websocket: text that json.loads rejects, or an object
\* with an optional "type" and an optional "delta".
Messages ==
    {[json |-> FALSE, type |-> None, delta |-> None]}
    \cup [json : {TRUE},
          type : {None} \cup {Some(t) : t \in InboundTypes},
          delta : InboundDeltas]

\* The `handlers` dictionary of _handle_message, and handlers.get.
HandlerOf(message_type) ==
    CASE message_type = "session.created" ->
            Some("_handle_session_created")
      [] message_type = "response.audio.delta" ->
            Some("_handle_audio_delta")
      [] message_type = "response.audio_transcript.delta" ->
            Some("_handle_audio_transcript_delta")
      [] message_type = "session.updated" ->
            Some("_handle_session_updated")
      [] message_type = "response.created" ->
            Some("_handle_response_created")
      [] message_type = "response.done" ->
            Some("_handle_response_done")
      [] message_type = "response.audio.done" ->
            Some("_handle_audio_done")
      [] message_type = "rate_limit.updated" ->
            Some("_handle_rate_limit")
      [] message_type = "input_audio_buffer.speech_started" ->
            Some("_handle_audio_buffer_speech_started")
      [] message_type = "input_audio_buffer.speech_stopped" ->
            Some("_handle_audio_delta")
      [] message_type = "error" ->
            Some("_handle_audio_buffer_speech_stopped")
      [] OTHER -> None

\* What a handler that only logs writes to the log.
LogOf(handler) ==
    CASE handler = "_handle_session_created" -> "info: New Session created"
      [] handler = "_handle_audio_transcript_delta" -> "nothing"
      [] handler = "_handle_session_updated" -> "info: Session updated"
      [] handler = "_handle_response_created" -> "info: Response created"
      [] handler = "_handle_response_done" -> "info: Response done"
      [] handler = "_handle_audio_done" -> "info: Response audio done"
      [] handler = "_handle_rate_limit" -> "info: Rate limit updated"
      [] handler = "_handle_error" -> "error: Error"
      [] handler = "_handle_audio_buffer_speech_stopped" ->
            "info: Speech Stopped"
      [] OTHER -> "nothing"

\* _handle_audio_delta
handle_audio_delta(msg, rs, f, w) ==
    IF msg.delta = None \/ msg.delta = Some(B64(0))
    THEN [fifo |-> f, wrote |-> FALSE, logged |-> "nothing"]
    ELSE LET r == enqueue_audio(rs, f, w, The(msg.delta)) IN
         [fifo |-> r.fifo, wrote |-> r.wrote,
          logged |-> IF r.failed THEN "error: Error in enqueue_audio"
                     ELSE "nothing"]

\* _handle_audio_buffer_speech_started
handle_audio_buffer_speech_started(msg, rs, f, w) ==
    [fifo |-> flush_audio(f), wrote |-> FALSE,
     logged |-> "info: Speech Started"]

\* `await handler(message_data)`
RunHandler(handler, msg, rs, f, w) ==
    CASE handler = "_handle_audio_delta" -> handle_audio_delta(msg, rs, f, w)
      [] handler = "_handle_audio_buffer_speech_started" ->
            handle_audio_buffer_speech_started(msg, rs, f, w)
      [] OTHER -> [fifo |-> f, wrote |-> FALSE, logged |-> LogOf(handler)]

\* The body of the try block of _handle_message: json.loads, the lookup in
\* the handler table, and the handler.
handle_message_try(msg, rs, f, w) ==
    LET message_type == IF msg.type = None THEN "unknown"
                        ELSE The(msg.type)
        handler == HandlerOf(message_type)
    IN  IF handler = None
        THEN [fifo |-> f, wrote |-> FALSE,
              logged |-> "error: Unhandled message type"]
        ELSE RunHandler(The(handler), msg, rs, f, w)

\* Mutant: a message that json.loads rejects is not caught.
handle_message_nocatch(msg, rs, f, w) ==
    IF ~msg.json
    THEN [fifo |-> f, wrote |-> FALSE, logged |-> "nothing", raised |-> TRUE]
    ELSE LET r == handle_message_try(msg, rs, f, w) IN
         [fifo |-> r.fifo, wrote |-> r.wrote, logged |-> r.logged,
          raised |-> FALSE]

\* OpenBot._handle_message: the try block and its except clauses, which
\* log every exception and let none out.
handle_message(msg, rs, f, w) ==
    IF ~msg.json
    THEN [fifo |-> f, wrote |-> FALSE,
          logged |-> "error: Failed to decode message", raised |-> FALSE]
    ELSE LET r == handle_message_try(msg, rs, f, w) IN
         [fifo |-> r.fifo, wrote |-> r.wrote, logged |-> r.logged,
          raised |-> FALSE]

\* Mutant: the loop takes the newest message first.
DequeueNewest(q) ==
    [message |-> q[Len(q)], rest |-> SubSeq(q, 1, Len(q) - 1)]

\* `async for message in self.ws`: the oldest message not yet handled.
Dequeue(q) == [message |-> Head(q), rest |-> Tail(q)]

BotInit ==
    /\ inbox = <<>>
    /\ nReceived = 0
    /\ nHandled = 0
    /\ prevHandled = None
    /\ lastHandled = None
    /\ afterHandle = <<>>
    /\ logged = "nothing"
    /\ listening = TRUE

\* The remote side sends a message; seq is its arrival number.
Receive(msg) ==
    /\ nReceived < MaxEnvelopes
    /\ nReceived' = nReceived + 1
    /\ inbox' = Append(inbox, [seq |-> nReceived + 1, msg |-> msg])
    /\ UNCHANGED <<nHandled, prevHandled, lastHandled, afterHandle, logged,
                   listening>>
    /\ UNCHANGED trackVars

\* One turn of the loop of _listen: `await self._handle_message(message)`.
\* No handler suspends, so the turn is one step of the event loop.  An
\* exception that leaves _handle_message ends the loop (`except: raise`).
Listen ==
    /\ listening
    /\ inbox # <<>>
    /\ LET d == Dequeue(inbox)
           r == handle_message(d.message.msg, readyState, audio_fifo, nwrites)
       IN  /\ inbox' = d.rest
           /\ audio_fifo' = r.fifo
           /\ nwrites' = IF r.wrote THEN nwrites + 1 ELSE nwrites
           /\ logged' = r.logged
           /\ listening' = ~r.raised
           /\ afterHandle' = r.fifo.samples
           /\ prevHandled' = lastHandled
           /\ lastHandled' = Some([seq |-> d.message.seq,
                                   msg |-> d.message.msg,
                                   live |-> readyState = "live",
                                   before |-> audio_fifo.samples,
                                   buffered |-> Len(audio_fifo.samples)])
    /\ nHandled' = nHandled + 1
    /\ UNCHANGED <<nReceived, readyState, start, timestamp>>

\* The FIFO read of a recv call that runs between two turns of the loop.
PacerRead ==
    /\ audio_fifo' = FifoRead(audio_fifo, FrameSamples).fifo
    /\ UNCHANGED <<readyState, start, timestamp, nwrites>>
    /\ UNCHANGED botVars

\* OpenBot.close: self.audio_track.stop()
Close ==
    /\ Stop
    /\ UNCHANGED botVars

(***************************************************************************)
(* OpenBot: connect, send_audio_chunks and the websocket                   *)
(***************************************************************************)
\* Number of connect() calls and of send_audio_chunks calls.
MaxConnects == 1
MaxSends == 2

\* The discriminators the remote side sends in this part of the model.
ClientInbound == {"session.created", "session.updated", "response.done"}

\* event_id of the initial message: "session_create_" + self.bot_id
SessionEventId == <<"session_create_", "bot_id">>

\* event_id of an audio chunk:
\* "audio_chunk_" + self.bot_id + str(self.__chunk_number)
AudioEventId(n) == <<"audio_chunk_", "bot_id", n>>

\* What is written to a connection: the envelope, and as history the call
\* that wrote it and whether the connection had been acknowledged.
Written(type, event_id, call, acked) ==
    [type |-> type, event_id |-> event_id, call |-> call, acked |-> acked]

\* Mutant: connect() sends no initial message.
send_initial_message_skip(wire) == wire

\* __send_initial_message: one session.update envelope.
send_initial_message(wire) ==
    Append(wire, Written("session.update", SessionEventId, 0, FALSE))

\* Mutant: a write on a closed connection goes through.
CanWriteAlways(c) == TRUE

\* ws.send raises ConnectionClosed unless the connection is open.
CanWrite(c) == conns[c].open

\* Mutant: the except clause of send_audio_chunks re-raises.
ExceptSendAudioRaise(call) == {call}

\* The except clause of send_audio_chunks logs the exception and returns:
\* the calls it lets raise to the caller.
ExceptSendAudio(call) == {}

\* A connection as websockets.connect returns it.
NewConn(open, wire, listen) ==
    [open |-> open, wire |-> wire, acked |-> FALSE, listen |-> listen,
     droppedAt |-> IF open THEN None ELSE Some(Len(wire))]

ClientInit ==
    /\ ws = None
    /\ conns = <<>>
    /\ connectPc = "idle"
    /\ nconnect = 0
    /\ chunk_number = 0
    /\ sending = {}
    /\ ncalls = 0
    /\ failedCalls = {}
    /\ afterClose = {}
    /\ refused = {}
    /\ raisedCalls = {}

\* connect() is called and suspends in `await websockets.connect(...)`.
Connect ==
    /\ connectPc = "idle"
    /\ nconnect < MaxConnects
    /\ connectPc' = "connecting"
    /\ nconnect' = nconnect + 1
    /\ UNCHANGED <<refused, raisedCalls>>
    /\ UNCHANGED <<ws, conns, chunk_number, sending, ncalls, failedCalls,
                   afterClose>>

\* websockets.connect raises: connect() logs and re-raises.
ConnectRefused ==
    /\ connectPc = "connecting"
    /\ connectPc' = "idle"
    /\ UNCHANGED <<refused, raisedCalls>>
    /\ UNCHANGED <<ws, conns, nconnect, chunk_number, sending, ncalls,
                   failedCalls, afterClose>>

\* websockets.connect returns: self.__ws is assigned and, with no
\* suspension in between, ws.send writes the initial message.  The send
\* then either returns at once, and the _listen task is created, or
\* suspends until the transport has drained.
ConnectOpened(suspend) ==
    /\ connectPc = "connecting"
    /\ ws' = Some(Len(conns) + 1)
    /\ conns' = Append(conns,
                       NewConn(TRUE, send_initial_message(<<>>),
                               IF suspend THEN "none" ELSE "running"))
    /\ connectPc' = IF suspend THEN "initial" ELSE "idle"
    /\ UNCHANGED <<refused, raisedCalls>>
    /\ UNCHANGED <<nconnect, chunk_number, sending, ncalls, failedCalls,
                   afterClose>>

\* websockets.connect returns a connection that has dropped by the time
\* connect() resumes: ws.send raises and connect() re-raises.
ConnectOpenedDropped ==
    /\ connectPc = "connecting"
    /\ ws' = Some(Len(conns) + 1)
    /\ conns' = Append(conns, NewConn(FALSE, <<>>, "none"))
    /\ connectPc' = "idle"
    /\ UNCHANGED <<refused, raisedCalls>>
    /\ UNCHANGED <<nconnect, chunk_number, sending, ncalls, failedCalls,
                   afterClose>>

\* The suspended send of the initial message resumes: it returns and the
\* _listen task is created, or it raises because the connection dropped.
ConnectResume ==
    /\ connectPc = "initial"
    /\ connectPc' = "idle"
    /\ conns' = IF conns[The(ws)].open
                THEN [conns EXCEPT ![The(ws)].listen = "running"]
                ELSE conns
    /\ UNCHANGED <<refused, raisedCalls>>
    /\ UNCHANGED <<ws, nconnect, chunk_number, sending, ncalls, failedCalls,
                   afterClose>>

\* send_audio_chunks when self.__ws is None or the connection is closed:
\* the exception is caught and logged, nothing is written.
SendNotConnected ==
    /\ ncalls < MaxSends
    /\ IF ws = None THEN TRUE ELSE ~CanWrite(The(ws))
    /\ ncalls' = ncalls + 1
    /\ failedCalls' = failedCalls \cup {ncalls + 1}
    /\ refused' = IF ws = None THEN refused \cup {ncalls + 1} ELSE refused
    /\ raisedCalls' = raisedCalls \cup ExceptSendAudio(ncalls + 1)
    /\ UNCHANGED <<ws, conns, connectPc, nconnect, chunk_number, sending,
                   afterClose>>

\* send_audio_chunks on an open connection: the event_id is built from
\* self.__chunk_number, ws.send writes the envelope, and the call either
\* goes on to `self.__chunk_number += 1` or suspends in the send.
SendAudioChunks(suspend) ==
    /\ ncalls < MaxSends
    /\ ws # None
    /\ CanWrite(The(ws))
    /\ ncalls' = ncalls + 1
    /\ conns' = [conns EXCEPT ![The(ws)].wire =
                    Append(@, Written("input_audio_buffer.append",
                                      AudioEventId(chunk_number),
                                      ncalls + 1, conns[The(ws)].acked))]
    /\ afterClose' = IF readyState = "live" THEN afterClose
                     ELSE afterClose \cup {"sent"}
    /\ IF suspend
       THEN /\ sending' = sending \cup {[call |-> ncalls + 1,
                                         conn |-> The(ws)]}
            /\ chunk_number' = chunk_number
       ELSE /\ sending' = sending
            /\ chunk_number' = chunk_number + 1
    /\ UNCHANGED <<refused, raisedCalls>>
    /\ UNCHANGED <<ws, connectPc, nconnect, failedCalls>>

\* A suspended send resumes: `self.__chunk_number += 1`, or the exception
\* of a connection that dropped meanwhile, caught and logged.
SendResume(s) ==
    /\ s \in sending
    /\ sending' = sending \ {s}
    /\ IF conns[s.conn].open
       THEN /\ chunk_number' = chunk_number + 1
            /\ failedCalls' = failedCalls
            /\ raisedCalls' = raisedCalls
       ELSE /\ chunk_number' = chunk_number
            /\ failedCalls' = failedCalls \cup {s.call}
            /\ raisedCalls' = raisedCalls \cup ExceptSendAudio(s.call)
    /\ refused' = refused
    /\ UNCHANGED <<ws, conns, connectPc, nconnect, ncalls, afterClose>>

\* The connection drops.
Drop(c) ==
    /\ conns[c].open
    /\ conns' = [conns EXCEPT ![c].open = FALSE,
                              ![c].droppedAt = Some(Len(conns[c].wire))]
    /\ UNCHANGED <<refused, raisedCalls>>
    /\ UNCHANGED <<ws, connectPc, nconnect, chunk_number, sending, ncalls,
                   failedCalls, afterClose>>

\* `async for message in self.ws` on a dropped connection: the loop of
\* _listen ends, by exhaustion or by the exception it logs and re-raises.
ListenEnd(c) ==
    /\ conns[c].listen = "running"
    /\ ~conns[c].open
    /\ conns' = [conns EXCEPT ![c].listen = "ended"]
    /\ UNCHANGED <<refused, raisedCalls>>
    /\ UNCHANGED <<ws, connectPc, nconnect, chunk_number, sending, ncalls,
                   failedCalls, afterClose>>

\* The loop of _listen receives an envelope and dispatches it.
Dispatch(c, type) ==
    /\ conns[c].listen = "running"
    /\ conns[c].open
    /\ conns' = [conns EXCEPT ![c].acked =
                    @ \/ type \in {"session.created", "session.updated"}]
    /\ afterClose' = IF readyState = "live" THEN afterClose
                     ELSE afterClose \cup {"dispatched"}
    /\ UNCHANGED <<refused, raisedCalls>>
    /\ UNCHANGED <<ws, connectPc, nconnect, chunk_number, sending, ncalls,
                   failedCalls>>

(***************************************************************************)
(* Transcribe: send_audio_byte, the executor and _transcribe_response      *)
(***************************************************************************)
\* ThreadPoolExecutor(max_workers=5), scaled down from 5.
max_workers == 2
\* Number of results the streaming calls return, all calls together.
MaxResults == 3

\* The payloads passed to send_audio_byte.
TranscribePayloads == {<<>>, <<0>>, <<0, 1>>, <<1, 0, 0, 1>>}

\* The number of alternatives of a result: none, or some.
ResultAlternatives == {0, 1}

\* _create_streaming_config: the request that carries the configuration.
StreamingConfig == [kind |-> "config", audio |-> <<>>]

\* Mutant: the audio messages are generated last chunk first.
AudioRequestsReversed(audio_chunk) ==
    [k \in 1 .. Len(audio_chunk) |->
        [kind |-> "audio", audio |-> audio_chunk[Len(audio_chunk) + 1 - k]]]

\* audio_requests: one StreamingRecognizeRequest(audio=audio) per chunk.
AudioRequests(audio_chunk) ==
    [k \in 1 .. Len(audio_chunk) |->
        [kind |-> "audio", audio |-> audio_chunk[k]]]

\* request_generator: the config request, then the audio requests.
request_generator(streaming_request, audio_chunk) ==
    <<streaming_request>> \o AudioRequests(audio_chunk)

\* Mutant: send_audio_byte also submits what get_remaining returns.
ToSubmitWithRemaining(chunks, buf) ==
    IF get_remaining(buf) = None THEN chunks
    ELSE Append(chunks, The(get_remaining(buf)))

\* The list send_audio_byte hands to the executor: the chunks add_audio
\* returned.
ToSubmit(chunks, buf) == chunks

RECURSIVE SumLen(_)
SumLen(seqs) == IF seqs = <<>> THEN 0 ELSE Len(Head(seqs)) + SumLen(Tail(seqs))

\* The number of results received so far.
ResultsReceived == SumLen([s \in 1 .. Len(subs) |-> subs[s].results])

\* The submissions a worker is running.
Running == {s \in 1 .. Len(subs) : subs[s].state = "running"}

\* Mutant: a work item starts whether or not a worker is free.
HasFreeWorkerAlways == TRUE

\* A worker thread is waiting on the work queue.
HasFreeWorker == Cardinality(Running) < threads

\* Mutant: an exception in a work item ends its worker thread.
ThreadsAfterRaiseDies(n) == n - 1

\* The executor stores a work item's exception in its future; the worker
\* thread goes on.
ThreadsAfterRaise(n) == n

\* Mutant: every result is emitted.
HasAlternativesAlways(alts) == TRUE

\* `if result.alternatives:`
HasAlternatives(alts) == alts > 0

PoolInit ==
    /\ queue = <<>>
    /\ subs = <<>>
    /\ events = <<>>
    /\ threads = 0
    /\ spawned = 0
    /\ lastSubmit = None

\* executor.submit: the work item is queued, and a thread is started if
\* none is idle and the pool has fewer than max_workers.
Submit(audio_chunk) ==
    LET spawn == /\ threads < max_workers
                 /\ threads - Cardinality(Running) - Len(queue) <= 0
    IN  /\ subs' = Append(subs,
                          [request |-> request_generator(StreamingConfig,
                                                         audio_chunk),
                           state |-> "queued", results |-> <<>>])
        /\ queue' = Append(queue, Len(subs) + 1)
        /\ threads' = IF spawn THEN threads + 1 ELSE threads
        /\ spawned' = IF spawn THEN spawned + 1 ELSE spawned
        /\ lastSubmit' = Some(Len(subs) + 1)
        /\ events' = events

\* Transcribe.send_audio_byte
SendAudioByte(audio) ==
    /\ AddAudio(audio)
    /\ LET r == add_audio(buffer, audio) IN
         IF Len(r.chunks) = 0
         THEN /\ lastSubmit' = None
              /\ UNCHANGED <<queue, subs, events, threads, spawned>>
         ELSE Submit(ToSubmit(r.chunks, r.buffer))

\* An idle worker takes the oldest work item and calls
\* _transcribe_response.
StartTask ==
    /\ queue # <<>>
    /\ HasFreeWorker
    /\ queue' = Tail(queue)
    /\ subs' = [subs EXCEPT ![Head(queue)].state = "running"]
    /\ UNCHANGED <<events, threads, spawned, lastSubmit>>

\* The worker receives the next result of its streaming call and emits a
\* "transcription" event if the result has an alternative.
Result(s, alts) ==
    /\ subs[s].state = "running"
    /\ ResultsReceived < MaxResults
    /\ subs' = [subs EXCEPT ![s].results = Append(@, alts)]
    /\ events' = IF HasAlternatives(alts)
                 THEN Append(events, [sub |-> s,
                                      result |-> Len(subs[s].results) + 1])
                 ELSE events
    /\ UNCHANGED <<queue, threads, spawned, lastSubmit>>

\* The responses iterator is exhausted: _transcribe_response returns.
TaskDone(s) ==
    /\ subs[s].state = "running"
    /\ subs' = [subs EXCEPT ![s].state = "done"]
    /\ UNCHANGED <<queue, events, threads, spawned, lastSubmit>>

\* The streaming call raises: _transcribe_response raises in its worker.
TaskRaise(s) ==
    /\ subs[s].state = "running"
    /\ subs' = [subs EXCEPT ![s].state = "failed"]
    /\ threads' = ThreadsAfterRaise(threads)
    /\ UNCHANGED <<queue, events, spawned, lastSubmit>>

(***************************************************************************)
(* fifo_lock: a writer (enqueue_audio), the reader (recv) and a flusher    *)
(* (flush_audio) as three threads.  Inside the lock, AudioFifo.write and   *)
(* AudioFifo.read copy one sample per step, so that calls that are not     *)
(* excluded from one another do interleave sample by sample.               *)
(***************************************************************************)
NoThread == "none"
Threads == {"writer", "reader", "flusher"}

\* Mutant: the FIFO is touched without taking the lock.
CanAcquireAlways(t) == TRUE

\* `with self.fifo_lock:` is entered only when no thread holds the lock.
CanAcquire(t) == fifo_lock = NoThread

InCritical(t) == pc[t] \in {"write", "check", "read", "flush", "release"}

RaceInit ==
    /\ fifo_lock = NoThread
    /\ pc = [t \in Threads |-> "idle"]
    /\ wframe = <<>>
    /\ rframe = <<>>
    /\ rwant = 0
    /\ rdone = None
    /\ flushedUpTo = 0
    /\ rFlushed = 0

\* enqueue_audio up to the lock: the frame is decoded and built.
WriterPrepare(base64_audio) ==
    /\ pc["writer"] = "idle"
    /\ nwrites < MaxWrites
    /\ readyState = "live"
    /\ base64_audio # B64(0)
    /\ DecodeAudio(base64_audio) # None
    /\ wframe' = NewFrame(nwrites + 1, The(DecodeAudio(base64_audio)))
    /\ pc' = [pc EXCEPT !["writer"] = "acquire"]
    /\ UNCHANGED <<fifo_lock, rframe, rwant, rdone, flushedUpTo, rFlushed>>
    /\ UNCHANGED trackVars

WriterAcquire ==
    /\ pc["writer"] = "acquire"
    /\ CanAcquire("writer")
    /\ fifo_lock' = "writer"
    /\ nwrites' = nwrites + 1
    /\ pc' = [pc EXCEPT !["writer"] = "write"]
    /\ UNCHANGED <<wframe, rframe, rwant, rdone, flushedUpTo, rFlushed>>
    /\ UNCHANGED <<readyState, start, timestamp, audio_fifo>>

\* self.audio_fifo.write(frame), one sample
WriterCopy ==
    /\ pc["writer"] = "write"
    /\ wframe # <<>>
    /\ audio_fifo' = FifoWrite(audio_fifo, <<Head(wframe)>>)
    /\ wframe' = Tail(wframe)
    /\ UNCHANGED <<fifo_lock, pc, rframe, rwant, rdone, flushedUpTo, rFlushed>>
    /\ UNCHANGED <<readyState, start, timestamp, nwrites>>

WriterRelease ==
    /\ pc["writer"] = "write"
    /\ wframe = <<>>
    /\ fifo_lock' = NoThread
    /\ pc' = [pc EXCEPT !["writer"] = "idle"]
    /\ UNCHANGED <<wframe, rframe, rwant, rdone, flushedUpTo, rFlushed>>
    /\ UNCHANGED trackVars

ReaderAcquire ==
    /\ pc["reader"] = "idle"
    /\ CanAcquire("reader")
    /\ fifo_lock' = "reader"
    /\ rFlushed' = flushedUpTo
    /\ pc' = [pc EXCEPT !["reader"] = "check"]
    /\ UNCHANGED <<wframe, rframe, rwant, rdone, flushedUpTo>>
    /\ UNCHANGED trackVars

\* self.audio_fifo.read(samples): are that many samples buffered?
ReaderCheck ==
    /\ pc["reader"] = "check"
    /\ rwant' = IF Len(audio_fifo.samples) < FrameSamples THEN 0
                ELSE FrameSamples
    /\ rframe' = <<>>
    /\ pc' = [pc EXCEPT !["reader"] = "read"]
    /\ UNCHANGED <<fifo_lock, wframe, rdone, flushedUpTo, rFlushed>>
    /\ UNCHANGED trackVars

\* self.audio_fifo.read(samples), one sample
ReaderCopy ==
    /\ pc["reader"] = "read"
    /\ rwant > 0
    /\ audio_fifo.samples # <<>>
    /\ rframe' = Append(rframe, Head(audio_fifo.samples))
    /\ rwant' = rwant - 1
    /\ audio_fifo' = [samples |-> Tail(audio_fifo.samples),
                      read |-> audio_fifo.read + 1]
    /\ UNCHANGED <<fifo_lock, pc, wframe, rdone, flushedUpTo, rFlushed>>
    /\ UNCHANGED <<readyState, start, timestamp, nwrites>>

ReaderRelease ==
    /\ pc["reader"] = "read"
    /\ rwant = 0 \/ audio_fifo.samples = <<>>
    /\ rdone' = IF rframe = <<>> THEN rdone
                ELSE Some([samples |-> rframe, flushed |-> rFlushed])
    /\ rframe' = <<>>
    /\ rwant' = 0
    /\ fifo_lock' = NoThread
    /\ pc' = [pc EXCEPT !["reader"] = "idle"]
    /\ UNCHANGED <<wframe, flushedUpTo, rFlushed>>
    /\ UNCHANGED trackVars

FlusherAcquire ==
    /\ pc["flusher"] = "idle"
    /\ CanAcquire("flusher")
    /\ fifo_lock' = "flusher"
    /\ pc' = [pc EXCEPT !["flusher"] = "flush"]
    /\ UNCHANGED <<wframe, rframe, rwant, rdone, flushedUpTo, rFlushed>>
    /\ UNCHANGED trackVars

\* self.audio_fifo = AudioFifo()
FlusherReplace ==
    /\ pc["flusher"] = "flush"
    /\ audio_fifo' = flush_audio(audio_fifo)
    /\ flushedUpTo' = nwrites
    /\ pc' = [pc EXCEPT !["flusher"] = "release"]
    /\ UNCHANGED <<fifo_lock, wframe, rframe, rwant, rdone, rFlushed>>
    /\ UNCHANGED <<readyState, start, timestamp, nwrites>>

FlusherRelease ==
    /\ pc["flusher"] = "release"
    /\ fifo_lock' = NoThread
    /\ pc' = [pc EXCEPT !["flusher"] = "idle"]
    /\ UNCHANGED <<wframe, rframe, rwant, rdone, flushedUpTo, rFlushed>>
    /\ UNCHANGED trackVars

(***************************************************************************)
(* Specifications                                                          *)
(***************************************************************************)
Init ==
    ChunkerInit /\ TrackInit /\ PacerInit /\ BotInit /\ RaceInit /\ ClientInit
    /\ PoolInit
    /\ callSizes = <<>>

\* The AudioProcessor under any sequence of add_audio calls.
NextChunker ==
    /\ \E audio_data \in BytesUpTo(MaxTotal) : AddAudio(audio_data)
    /\ UNCHANGED <<poolVars, clientVars, trackVars, pacerVars, botVars,
                   raceVars, callSizes>>

SpecChunker == Init /\ [][NextChunker]_vars

\* The BotAudioTrack on the event loop: recv against handlers that
\* enqueue and flush, and the clock.
Next ==
    \/ (\E b \in Base64Strings : EnqueueAudio(b))
          /\ UNCHANGED <<clientVars, pacerVars, feedVars, botVars, raceVars>>
    \/ FlushAudio
          /\ UNCHANGED <<clientVars, pacerVars, feedVars, botVars, raceVars>>
    \/ Stop
          /\ UNCHANGED <<clientVars, pacerVars, feedVars, botVars, raceVars>>
    \/ RecvClosed /\ UNCHANGED <<clientVars, feedVars, botVars, raceVars>>
    \/ RecvSleep /\ UNCHANGED <<clientVars, feedVars, botVars, raceVars>>
    \/ RecvLate /\ UNCHANGED <<clientVars, feedVars, botVars, raceVars>>
    \/ RecvWake /\ UNCHANGED <<clientVars, feedVars, botVars, raceVars>>
    \/ Tick /\ UNCHANGED <<clientVars, feedVars, botVars, raceVars>>

Spec == Init /\ [][Next]_vars

\* The same track when the try block of recv can raise.
NextFault ==
    \/ (\E b \in Base64Strings : EnqueueAudio(b))
          /\ UNCHANGED <<clientVars, pacerVars, feedVars, botVars, raceVars>>
    \/ FlushAudio
          /\ UNCHANGED <<clientVars, pacerVars, feedVars, botVars, raceVars>>
    \/ Stop
          /\ UNCHANGED <<clientVars, pacerVars, feedVars, botVars, raceVars>>
    \/ RecvClosed /\ UNCHANGED <<clientVars, feedVars, botVars, raceVars>>
    \/ RecvSleep /\ UNCHANGED <<clientVars, feedVars, botVars, raceVars>>
    \/ RecvLate /\ UNCHANGED <<clientVars, feedVars, botVars, raceVars>>
    \/ RecvWake /\ UNCHANGED <<clientVars, feedVars, botVars, raceVars>>
    \/ (\E at \in FaultPoints : RecvLateFault(at))
          /\ UNCHANGED <<clientVars, feedVars, botVars, raceVars>>
    \/ (\E at \in FaultPoints : RecvWakeFault(at))
          /\ UNCHANGED <<clientVars, feedVars, botVars, raceVars>>
    \/ Tick /\ UNCHANGED <<clientVars, feedVars, botVars, raceVars>>

SpecFault == Init /\ [][NextFault]_vars

\* The OpenBot read loop feeding the track's FIFO.
NextSession ==
    \/ (\E msg \in Messages : Receive(msg))
          /\ UNCHANGED <<clientVars, pacerVars, feedVars, raceVars>>
    \/ Listen /\ UNCHANGED <<clientVars, pacerVars, feedVars, raceVars>>
    \/ PacerRead /\ UNCHANGED <<clientVars, pacerVars, feedVars, raceVars>>
    \/ Close /\ UNCHANGED <<clientVars, pacerVars, feedVars, raceVars>>

SpecSession == Init /\ [][NextSession]_vars

\* The OpenBot against its callers and the remote side: connect(),
\* send_audio_chunks(), close(), the read loop and the transport.
NextClient ==
    \/ Connect
          /\ UNCHANGED <<feedVars, trackVars, pacerVars, botVars,
                         raceVars>>
    \/ ConnectRefused
          /\ UNCHANGED <<feedVars, trackVars, pacerVars, botVars,
                         raceVars>>
    \/ (\E suspend \in BOOLEAN : ConnectOpened(suspend))
          /\ UNCHANGED <<feedVars, trackVars, pacerVars, botVars,
                         raceVars>>
    \/ ConnectOpenedDropped
          /\ UNCHANGED <<feedVars, trackVars, pacerVars, botVars,
                         raceVars>>
    \/ ConnectResume
          /\ UNCHANGED <<feedVars, trackVars, pacerVars, botVars,
                         raceVars>>
    \/ SendNotConnected
          /\ UNCHANGED <<feedVars, trackVars, pacerVars, botVars,
                         raceVars>>
    \/ (\E suspend \in BOOLEAN : SendAudioChunks(suspend))
          /\ UNCHANGED <<feedVars, trackVars, pacerVars, botVars,
                         raceVars>>
    \/ (\E s \in sending : SendResume(s))
          /\ UNCHANGED <<feedVars, trackVars, pacerVars, botVars,
                         raceVars>>
    \/ (\E c \in 1 .. Len(conns) : Drop(c))
          /\ UNCHANGED <<feedVars, trackVars, pacerVars, botVars,
                         raceVars>>
    \/ (\E c \in 1 .. Len(conns) : ListenEnd(c))
          /\ UNCHANGED <<feedVars, trackVars, pacerVars, botVars,
                         raceVars>>
    \/ (\E c \in 1 .. Len(conns) : \E type \in ClientInbound : Dispatch(c, type))
          /\ UNCHANGED <<feedVars, trackVars, pacerVars, botVars,
                         raceVars>>
    \/ Close /\ UNCHANGED <<clientVars, feedVars, pacerVars, raceVars>>

SpecClient == Init /\ [][NextClient]_vars

\* The AudioProcessor with the source's chunk size, under add_audio calls
\* with payloads of a few thousand bytes.
NextFull ==
    /\ \E n \in FullSizes : AddAudioFull(n)
    /\ UNCHANGED <<poolVars, clientVars, trackVars, pacerVars, botVars,
                   raceVars>>

SpecFull == Init /\ [][NextFull]_vars

\* The Transcribe dispatcher: send_audio_byte on the event loop, the
\* worker threads of the executor, and the streaming calls.
NextTranscribe ==
    \/ (\E audio \in TranscribePayloads : SendAudioByte(audio))
          /\ UNCHANGED <<trackVars, pacerVars, botVars, raceVars, clientVars,
                         callSizes>>
    \/ StartTask /\ UNCHANGED chunkerVars
          /\ UNCHANGED <<trackVars, pacerVars, botVars, raceVars, clientVars,
                         callSizes>>
    \/ (\E s \in 1 .. Len(subs) : \E alts \in ResultAlternatives :
           Result(s, alts)) /\ UNCHANGED chunkerVars
          /\ UNCHANGED <<trackVars, pacerVars, botVars, raceVars, clientVars,
                         callSizes>>
    \/ (\E s \in 1 .. Len(subs) : TaskDone(s)) /\ UNCHANGED chunkerVars
          /\ UNCHANGED <<trackVars, pacerVars, botVars, raceVars, clientVars,
                         callSizes>>
    \/ (\E s \in 1 .. Len(subs) : TaskRaise(s)) /\ UNCHANGED chunkerVars
          /\ UNCHANGED <<trackVars, pacerVars, botVars, raceVars, clientVars,
                         callSizes>>

SpecTranscribe == Init /\ [][NextTranscribe]_vars

\* Writer, reader and flusher threads around fifo_lock.
NextRace ==
    \/ (\E b \in Base64Strings : WriterPrepare(b))
          /\ UNCHANGED <<clientVars, pacerVars, feedVars, botVars>>
    \/ WriterAcquire
          /\ UNCHANGED <<clientVars, pacerVars, feedVars, botVars>>
    \/ WriterCopy /\ UNCHANGED <<clientVars, pacerVars, feedVars, botVars>>
    \/ WriterRelease
          /\ UNCHANGED <<clientVars, pacerVars, feedVars, botVars>>
    \/ ReaderAcquire
          /\ UNCHANGED <<clientVars, pacerVars, feedVars, botVars>>
    \/ ReaderCheck /\ UNCHANGED <<clientVars, pacerVars, feedVars, botVars>>
    \/ ReaderCopy /\ UNCHANGED <<clientVars, pacerVars, feedVars, botVars>>
    \/ ReaderRelease
          /\ UNCHANGED <<clientVars, pacerVars, feedVars, botVars>>
    \/ FlusherAcquire
          /\ UNCHANGED <<clientVars, pacerVars, feedVars, botVars>>
    \/ FlusherReplace
          /\ UNCHANGED <<clientVars, pacerVars, feedVars, botVars>>
    \/ FlusherRelease
          /\ UNCHANGED <<clientVars, pacerVars, feedVars, botVars>>

SpecRace == Init /\ [][NextRace]_vars

(***************************************************************************)
(* Properties of the AudioProcessor (SpecChunker)                          *)
(***************************************************************************)
\* C1: however the input was split across add_audio calls, the chunks
\* returned so far, concatenated, are the list one add_audio call on the
\* whole input returns from an empty buffer.
C1_SplitIndependent == emitted = add_audio(<<>>, allInput).chunks

\* Chunks came back from at least two different calls.
C1_Witness == Len(emitted) >= 2 /\ Len(lastChunks) = 1 /\ buffer # <<>>

\* C2: the chunks emitted so far followed by get_remaining() (None read as
\* the empty byte string) are the input bytes, in call order.
C2_NoByteLost ==
    LET r == get_remaining(buffer) IN
    Concat(emitted) \o (IF r = None THEN <<>> ELSE The(r)) = allInput

C2_Witness ==
    /\ Len(emitted) >= 2
    /\ get_remaining(buffer) # None
    /\ Len(lastChunks) < Len(emitted)

\* C3: after every add_audio call the buffer is shorter than
\* PREFERRED_CHUNK_SIZE and every chunk returned is exactly that long.
C3_BufferBelowChunkSize ==
    /\ Len(buffer) < PREFERRED_CHUNK_SIZE
    /\ \A k \in 1 .. Len(lastChunks) :
          Len(lastChunks[k]) = PREFERRED_CHUNK_SIZE
    /\ \A k \in 1 .. Len(emitted) : Len(emitted[k]) = PREFERRED_CHUNK_SIZE

\* The buffer after appending was an exact multiple of the chunk size.
C3_Witness ==
    /\ lastChunks # <<>>
    /\ buffer = <<>>
    /\ Len(allInput) % PREFERRED_CHUNK_SIZE = 0

(***************************************************************************)
(* Properties of BotAudioTrack.recv (Spec)                                 *)
(***************************************************************************)
\* C4: the presentation timestamps of the frames recv returned are
\* 0, frame_samples, 2 * frame_samples, ...
C4_PtsFromZero ==
    \A k \in 1 .. Len(log) : log[k].pts = (k - 1) * FrameSamples

C6_UnderrunSilence ==
    /\ (last.result = "frame" /\ last.buffered = 0) =>
          /\ last.kind = "silence"
          /\ last.samples = Silence(FrameSamples)
          /\ last.slept = 0 \/ last.begin + last.slept <= last.deadline
    /\ (recvPc = "sleeping" /\ now >= recvCall.deadline) => ENABLED RecvWake

\* A recv that slept and found the FIFO empty.
C6_Witness ==
    /\ last.result = "frame"
    /\ last.buffered = 0
    /\ last.slept > 0
    /\ readyState = "live"

\* C7: the deadline of a tick is start plus the samples emitted before the
\* tick (over the sample rate).
C7_DeadlineFromEmitted ==
    /\ recvPc = "sleeping" =>
          recvCall.deadline = The(start) + Len(log) * FrameSamples
    /\ last.result = "frame" =>
          last.deadline = The(start) + (Len(log) - 1) * FrameSamples

(***************************************************************************)
(* Properties of the read loop (SpecSession)                               *)
(***************************************************************************)
IsSpeechStarted(h) ==
    h.msg.json /\ h.msg.type = Some("input_audio_buffer.speech_started")

\* An audio delta whose audio enqueue_audio accepts on a live track.
IsPlayableDelta(h) ==
    /\ h.msg.json
    /\ h.msg.type = Some("response.audio.delta")
    /\ h.msg.delta # None
    /\ h.msg.delta # Some(B64(0))
    /\ DecodeAudio(The(h.msg.delta)) # None
    /\ h.live

\* C8: envelopes are handled in arrival order, one per turn of the loop,
\* and when a speech-started and the audio delta received right after it
\* have both been handled, the FIFO holds that delta's audio.
C8_InOrderHandling ==
    /\ \A k \in 1 .. Len(inbox) : inbox[k].seq = nHandled + k
    /\ lastHandled # None => The(lastHandled).seq = nHandled
    /\ prevHandled # None => The(prevHandled).seq = nHandled - 1
    /\ \A a \in {The(o) : o \in {prevHandled, lastHandled} \ {None}} :
       \A b \in {The(o) : o \in {prevHandled, lastHandled} \ {None}} :
          (a.seq + 1 = b.seq /\ IsSpeechStarted(a) /\ IsPlayableDelta(b)) =>
             afterHandle =
                NewFrame(nwrites, The(DecodeAudio(The(b.msg.delta))))

\* speech-started, then a playable audio delta, both handled.
C8_Witness ==
    /\ prevHandled # None
    /\ lastHandled # None
    /\ IsSpeechStarted(The(prevHandled))
    /\ IsPlayableDelta(The(lastHandled))
    /\ afterHandle # <<>>

\* C10: when the handler of a speech-started envelope returns, the FIFO
\* holds no sample.
C10_SpeechStartedFlushes ==
    (lastHandled # None /\ IsSpeechStarted(The(lastHandled))) =>
       afterHandle = <<>>

\* speech-started handled while audio was buffered.
C10_Witness ==
    /\ lastHandled # None
    /\ IsSpeechStarted(The(lastHandled))
    /\ The(lastHandled).buffered > 0

(***************************************************************************)
(* Properties of fifo_lock (SpecRace)                                      *)
(***************************************************************************)
\* s2 is the sample written right after s1.
Follows(s1, s2) ==
    \/ s2.w = s1.w /\ s2.i = s1.i + 1
    \/ s2.w = s1.w + 1 /\ s2.i = 1 /\ s1.i = s1.n

InOrder(samples) ==
    \A k \in 1 .. (Len(samples) - 1) : Follows(samples[k], samples[k + 1])

\* The sample the reader took out latest, if any.
LastTaken ==
    IF rframe # <<>> THEN Some(rframe[Len(rframe)])
    ELSE IF rdone # None
         THEN Some(The(rdone).samples[Len(The(rdone).samples)])
         ELSE None

\* C9: write, read and flush exclude one another; the FIFO holds whole
\* writes begun after the last flush, in order (but for what the reader has
\* taken from its head and what the writer inside the lock has yet to
\* copy), and a frame read is made of in-order samples written after the
\* last flush that preceded the read.
C9_MutualExclusion ==
    /\ Cardinality({t \in Threads : InCritical(t)}) <= 1
    /\ \A t \in Threads : InCritical(t) => fifo_lock = t
    /\ InOrder(audio_fifo.samples)
    /\ \A k \in 1 .. Len(audio_fifo.samples) :
          audio_fifo.samples[k].w > flushedUpTo
    /\ audio_fifo.samples # <<>> =>
          LET head == audio_fifo.samples[1]
              tail == audio_fifo.samples[Len(audio_fifo.samples)]
          IN  /\ head.i = 1 \/
                   (LastTaken # None /\ Follows(The(LastTaken), head))
              /\ tail.i = tail.n \/
                   (pc["writer"] = "write" /\ wframe # <<>>
                      /\ Follows(tail, Head(wframe)))
    /\ rdone # None =>
          /\ Len(The(rdone).samples) = FrameSamples
          /\ InOrder(The(rdone).samples)
          /\ \A k \in 1 .. FrameSamples :
                The(rdone).samples[k].w > The(rdone).flushed

\* A frame was read from a write made after a flush dropped an earlier one.
C9_Witness ==
    /\ rdone # None
    /\ flushedUpTo > 0
    /\ The(rdone).samples[1].w > flushedUpTo

(***************************************************************************)
(* The handler table: error, unknown and speech-stopped envelopes          *)
(***************************************************************************)
\* The discriminator of a decoded envelope, as _handle_message reads it.
TypeOf(h) == IF h.msg.type = None THEN "unknown" ELSE The(h.msg.type)

IsError(h) == h.msg.json /\ h.msg.type = Some("error")

IsSpeechStopped(h) ==
    h.msg.json /\ h.msg.type = Some("input_audio_buffer.speech_stopped")

\* An envelope that cannot be decoded, carries no discriminator, or carries
\* one that is not in ResponseMessageTypes.
IsUnrecognised(h) == ~h.msg.json \/ TypeOf(h) \notin MessageTypes

\* C14: when an `error` envelope has been handled, it was logged as an
\* error, the FIFO is as it was before, and the read loop is still running.
C14_ErrorLoggedAsError ==
    (lastHandled # None /\ IsError(The(lastHandled))) =>
       /\ logged = "error: Error"
       /\ afterHandle = The(lastHandled).before
       /\ listening

\* C15: when an envelope with an unknown discriminator, with none, or with
\* a payload that cannot be decoded has been handled, an error was logged,
\* the FIFO is as it was before, no exception left _handle_message, and
\* the read loop is still running, ready for the next envelope.
C15_UnrecognisedSkipped ==
    (lastHandled # None /\ IsUnrecognised(The(lastHandled))) =>
       /\ logged \in {"error: Failed to decode message",
                      "error: Unhandled message type"}
       /\ afterHandle = The(lastHandled).before
       /\ listening

\* An undecodable envelope was handled while audio was buffered, with the
\* loop still running.
C15_Witness ==
    /\ lastHandled # None
    /\ ~The(lastHandled).msg.json
    /\ The(lastHandled).before # <<>>
    /\ listening

\* C16: when a speech-stopped envelope has been handled, the FIFO is as it
\* was before, whatever the envelope carries.
C16_SpeechStoppedKeepsFifo ==
    (lastHandled # None /\ IsSpeechStopped(The(lastHandled))) =>
       afterHandle = The(lastHandled).before

(***************************************************************************)
(* recv on a stopped track, and recv whose try block raises                *)
(***************************************************************************)
\* C19: a recv call returns a frame only if the track is live when it
\* returns, so a call suspended in its wait when stop() runs raises
\* MediaStreamError; and a call begun on a stopped track can only raise.
C19_StopFailsRecv ==
    /\ last.result = "frame" => last.live
    /\ (recvPc = "idle" /\ readyState # "live") =>
          /\ ENABLED RecvClosed
          /\ ~ENABLED RecvSleep
          /\ ~ENABLED RecvLate

\* C20: a recv call on a live track whose try block raised logged the
\* error and returned a full frame of silence.
C20_ErrorBecomesSilence ==
    (last.cause = "error" /\ last.live) =>
       /\ last.logged = "error: Error in recv"
       /\ last.result = "frame"
       /\ last.kind = "silence"
       /\ last.samples = Silence(FrameSamples)

(***************************************************************************)
(* Properties of connect, send_audio_chunks and close (SpecClient)         *)
(***************************************************************************)
\* The envelopes of one type written to connection c, in order.
OfType(c, type) == SelectSeq(conns[c].wire, LAMBDA e : e.type = type)

\* The sequence numbers of the audio envelopes written to connection c.
AudioNumbers(c) ==
    [k \in 1 .. Len(OfType(c, "input_audio_buffer.append")) |->
        OfType(c, "input_audio_buffer.append")[k].event_id[3]]

\* Every envelope written so far, on any connection, by one call.
WrittenBy(call) ==
    UNION {{<<c, k>> : k \in {j \in 1 .. Len(conns[c].wire) :
                                conns[c].wire[j].call = call}} :
           c \in 1 .. Len(conns)}

\* C11: a connection carries at most one session.update and nothing before
\* it, and a connection whose connect() has written its initial message
\* (it is suspended in that send, or has created the read loop) carries
\* exactly one.
C11_InitialMessageFirst ==
    \A c \in 1 .. Len(conns) :
       /\ conns[c].wire # <<>> => conns[c].wire[1].type = "session.update"
       /\ Len(OfType(c, "session.update")) <= 1
       /\ (conns[c].listen # "none" \/ (connectPc = "initial" /\ ws = Some(c)))
             => Len(OfType(c, "session.update")) = 1

\* connect() is still suspended in the send of the initial message and a
\* send_audio_chunks call has already written audio to the connection,
\* after another call was refused for lack of a connection.
C11_Witness ==
    /\ connectPc = "initial"
    /\ Len(conns[The(ws)].wire) >= 2
    /\ conns[The(ws)].wire[2].type = "input_audio_buffer.append"
    /\ failedCalls # {}

\* C12: every audio envelope on a connection was written after a
\* session.created or session.updated event had been received on it.
C12_NoAudioBeforeAck ==
    \A c \in 1 .. Len(conns) :
       \A k \in 1 .. Len(conns[c].wire) :
          conns[c].wire[k].type = "input_audio_buffer.append" =>
             conns[c].wire[k].acked

\* C13: on every connection the sequence numbers of the audio envelopes
\* increase strictly in the order the envelopes were written.
C13_SequenceIncreases ==
    \A c \in 1 .. Len(conns) :
       \A j, k \in 1 .. Len(AudioNumbers(c)) :
          j < k => AudioNumbers(c)[j] < AudioNumbers(c)[k]

\* C17: after close() the read loop dispatches no envelope and
\* send_audio_chunks writes none.
C17_CloseEndsSession == afterClose = {}

\* C18: once a connection has dropped nothing more is written to it; a
\* connection is opened only by a connect() call; and no call's envelope
\* is written twice, a call refused outright writing none.
C18_DropIsFinal ==
    /\ \A c \in 1 .. Len(conns) :
          conns[c].droppedAt # None =>
             /\ ~conns[c].open
             /\ Len(conns[c].wire) = The(conns[c].droppedAt)
    /\ Len(conns) <= nconnect
    /\ \A call \in 1 .. ncalls : Cardinality(WrittenBy(call)) <= 1
    /\ \A call \in failedCalls :
          \A w \in WrittenBy(call) :
             /\ conns[w[1]].droppedAt # None
             /\ w[2] <= The(conns[w[1]].droppedAt)

\* A connection dropped while a send was suspended on it; that send and a
\* later one failed, and the connection carries what it carried at the
\* drop.
C18_Witness ==
    \E c \in 1 .. Len(conns) :
       /\ conns[c].droppedAt # None
       /\ The(conns[c].droppedAt) >= 2
       /\ Cardinality(failedCalls) >= 2
       /\ \E call \in failedCalls : WrittenBy(call) # {}
       /\ \E call \in failedCalls : WrittenBy(call) = {}
       /\ conns[c].listen = "ended"

(***************************************************************************)
(* Properties of the Transcribe dispatcher (SpecTranscribe)                *)
(***************************************************************************)
\* The audio carried by the messages of one request, in message order.
AudioOf(request) ==
    [k \in 1 .. Len(SelectSeq(request, LAMBDA m : m.kind = "audio")) |->
        SelectSeq(request, LAMBDA m : m.kind = "audio")[k].audio]

RECURSIVE SubmittedFrom(_)
\* The chunks of submissions s, s + 1, ..., in submission order.
SubmittedFrom(s) ==
    IF s > Len(subs) THEN <<>>
    ELSE AudioOf(subs[s].request) \o SubmittedFrom(s + 1)

\* The events of submission s, in emit order.
EventsOf(s) == SelectSeq(events, LAMBDA e : e.sub = s)

\* The results of submission s that have an alternative, in the order
\* they were received.
WithAlternatives(s) ==
    SelectSeq([k \in 1 .. Len(subs[s].results) |->
                  [sub |-> s, result |-> k]],
              LAMBDA e : subs[s].results[e.result] > 0)

\* C21: the latest send_audio_byte call submitted a request exactly if
\* add_audio returned a chunk; that request is the config message followed
\* by one audio message per returned chunk, in chunk order; and the chunks
\* of all submissions, in submission order, are the chunks add_audio
\* produced, in production order.
C21_OneRequestPerCall ==
    /\ (lastSubmit = None) <=> (lastChunks = <<>>)
    /\ lastSubmit # None =>
          /\ The(lastSubmit) = Len(subs)
          /\ AudioOf(subs[Len(subs)].request) = lastChunks
    /\ \A s \in 1 .. Len(subs) :
          /\ Len(subs[s].request) >= 2
          /\ subs[s].request[1] = StreamingConfig
          /\ \A k \in 2 .. Len(subs[s].request) :
                subs[s].request[k].kind = "audio"
    /\ SubmittedFrom(1) = emitted

\* The second call to submit handed over two different chunks at once.
C21_Witness ==
    /\ lastSubmit = Some(2)
    /\ Len(lastChunks) = 2
    /\ lastChunks[1] # lastChunks[2]

\* C22: the events of each submission are its results that have an
\* alternative, one event per such result, in the order received.
C22_EventsPerSubmission ==
    /\ \A s \in 1 .. Len(subs) : EventsOf(s) = WithAlternatives(s)
    /\ \A k \in 1 .. Len(events) : events[k].sub \in 1 .. Len(subs)

\* Two submissions ran at once and their events interleaved; one of them
\* received a result with no alternative before one with an alternative.
C22_Witness ==
    /\ Len(events) >= 2
    /\ events[1].sub # events[2].sub
    /\ events[1].result = 2
    /\ Cardinality(Running) = 2

\* C23: once a streaming call has raised, the pool still has every thread
\* it started, no more work items run than there are threads, and every
\* queued work item has a thread to run it unless the pool is full.
C23_FailureIsolated ==
    (\E s \in 1 .. Len(subs) : subs[s].state = "failed") =>
       /\ threads = spawned
       /\ Cardinality(Running) <= threads
       /\ queue # <<>> =>
             \/ threads = max_workers
             \/ threads >= Cardinality(Running) + Len(queue)

\* The first submission failed; the second, submitted afterwards to the
\* same single worker thread, emitted an event and completed.
C23_Witness ==
    /\ Len(subs) >= 2
    /\ threads = 1
    /\ subs[1].state = "failed"
    /\ subs[2].state = "done"
    /\ EventsOf(2) # <<>>

\* C24: at most max_workers streaming calls run at once; the work queue
\* holds exactly the submissions not yet started, oldest first; and a
\* queued submission can start as soon as fewer calls run than the pool
\* has threads.
C24_PoolBound ==
    /\ Cardinality(Running) <= max_workers
    /\ threads <= max_workers
    /\ \A k \in 1 .. Len(queue) :
          /\ queue[k] \in 1 .. Len(subs)
          /\ subs[queue[k]].state = "queued"
          /\ \A j \in 1 .. Len(queue) : j < k => queue[j] < queue[k]
    /\ \A s \in 1 .. Len(subs) :
          subs[s].state = "queued" => \E k \in 1 .. Len(queue) : queue[k] = s
    /\ (queue # <<>> /\ Cardinality(Running) < max_workers) =>
          threads > Cardinality(Running)

\* Every worker is busy and a submission waits in the queue.
C24_Witness ==
    /\ Cardinality(Running) = max_workers
    /\ queue # <<>>

\* C28: every chunk submitted has PREFERRED_CHUNK_SIZE bytes, and the
\* input is the submitted chunks followed by the bytes still in the
\* accumulator, which are in no submission.
C28_TailNotSubmitted ==
    /\ \A s \in 1 .. Len(subs) :
          \A k \in 1 .. Len(AudioOf(subs[s].request)) :
             Len(AudioOf(subs[s].request)[k]) = PREFERRED_CHUNK_SIZE
    /\ Concat(SubmittedFrom(1)) \o buffer = allInput
    /\ Len(buffer) < PREFERRED_CHUNK_SIZE

\* A call completed a chunk and left a tail; every submission has
\* finished and the tail is still in the accumulator.
C28_Witness ==
    /\ lastSubmit # None
    /\ buffer # <<>>
    /\ \A s \in 1 .. Len(subs) : subs[s].state = "done"

(***************************************************************************)
(* The size and content of the frames recv returns (Spec)                  *)
(***************************************************************************)
\* C26: a frame recv returns has FrameSamples samples, either the oldest
\* FrameSamples buffered samples or all silence; with some but fewer than
\* FrameSamples samples buffered it is silence and the FIFO keeps its
\* samples, which are the first to be played by a later audio frame.
C26_WholeFrames ==
    last.result = "frame" =>
       /\ Len(last.samples) = FrameSamples
       /\ \/ /\ last.kind = "silence"
             /\ \A i \in 1 .. Len(last.samples) : last.samples[i].w = 0
             /\ Len(last.had) < FrameSamples
             /\ last.left = last.had
          \/ /\ last.kind = "audio"
             /\ \A i \in 1 .. Len(last.samples) : last.samples[i].w > 0
             /\ Len(last.had) >= FrameSamples
             /\ last.samples \o last.left = last.had

\* recv returned silence over a partly filled FIFO, and after a further
\* write the next recv returned a frame made of samples of both writes.
C26_Witness ==
    /\ Len(log) >= 2
    /\ log[Len(log) - 1].kind = "silence"
    /\ last.result = "frame"
    /\ last.kind = "audio"
    /\ last.samples[1].w # last.samples[FrameSamples].w

(***************************************************************************)
(* send_audio_chunks before the connection exists (SpecClient)             *)
(***************************************************************************)
\* C27: a send_audio_chunks call made while self.__ws is None writes
\* nothing to any connection, then or later, does not raise to its caller
\* and is not left pending; and the chunk counter counts exactly the calls
\* whose send returned, so such a call leaves it unchanged.
C27_EarlySendDropped ==
    /\ \A call \in refused :
          /\ WrittenBy(call) = {}
          /\ call \notin raisedCalls
          /\ call \notin {s.call : s \in sending}
          /\ call \in failedCalls
    /\ chunk_number = ncalls - Cardinality(failedCalls) - Cardinality(sending)

\* The first call came before the connection; connect() then completed
\* and the second call's audio, numbered 0, is the only audio sent.
C27_Witness ==
    /\ refused = {1}
    /\ ncalls = 2
    /\ chunk_number = 1
    /\ ws # None
    /\ connectPc = "idle"
    /\ AudioNumbers(The(ws)) = <<0>>
    /\ WrittenBy(2) # {}

(***************************************************************************)
(* add_audio calls of 10000, 10000 and 6000 bytes (SpecFull)               *)
(***************************************************************************)
\* C25: from an empty accumulator, calls of 10000 and 10000 bytes return
\* no chunk; the third call, of 6000 bytes, returns one chunk, the first
\* 24576 bytes of the input, and 1424 bytes remain.
C25_ThreeCalls ==
    /\ callSizes \in {<<10000>>, <<10000, 10000>>} =>
          /\ emitted = <<>>
          /\ buffer = allInput
    /\ callSizes = <<10000, 10000, 6000>> =>
          /\ Len(emitted) = 1
          /\ Len(emitted[1]) = 24576
          /\ lastChunks = emitted
          /\ Len(buffer) = 1424
          /\ emitted[1] \o buffer = allInput

\* The three calls have been made.
C25_Witness ==
    /\ callSizes = <<10000, 10000, 6000>>
    /\ Len(allInput) = 26000

====
